---- MODULE Spec2Model ----
(***************************************************************************)
(* Model of bridging-architecture/validation/validate-and-repair.py:       *)
(* MetabaseBridgeValidator, its four validate_* rule evaluations, the two  *)
(* repair steps, the bookkeeping of records / issues / repairs and the     *)
(* health score.                                                           *)
(*                                                                         *)
(* The artifact tree under base_path is the variable fs.  A file's text is *)
(* abstracted to the set of the searched substrings it contains (every     *)
(* test the code makes on a text is `keyword in content`, and no searched  *)
(* keyword is a substring of another one of the same file).  Timestamps    *)
(* (time.time()) are stored by the code but never read by it; they are not *)
(* part of the model's records.                                            *)
(***************************************************************************)
EXTENDS Integers, Sequences, FiniteSets, TLC

VARIABLES
    fs,                 \* the artifact tree: what exists, texts, permissions
    validation_results, \* self.validation_results: component -> record
    repairs_applied,    \* self.repairs_applied
    issues_found,       \* self.issues_found
    stdout,             \* the lines printed so far
    pc,                 \* next operation of the call in progress, or "idle"
    caller,             \* which public method the caller invoked
    calls,              \* number of calls made by the caller so far
    outcome,            \* how the last finished call ended
    report,             \* <<report>> returned by the last call, or <<>>
    error               \* the exception the last call raised, or NoError

vars == <<fs, validation_results, repairs_applied, issues_found, stdout,
          pc, caller, calls, outcome, report, error>>

-----------------------------------------------------------------------------
(* Bounds *)

MaxDefects == 3    \* deviations of the initial tree from a complete tree
MaxCalls == 2      \* calls the caller makes on validators over this tree
MaxTotal == 10     \* entries of a ValidationRecord mapping (health scoring)

-----------------------------------------------------------------------------
(* Paths of the artifact tree *)

ROOT == "<parent of base_path>"
BASE == "base_path"
SWIFT_PACKAGE == "swift-package"
SOURCES == "swift-package/Sources"
CONTAINERIZATION == "containerization"
INTEGRATION == "integration"
TESTS == "tests"
OPTIMIZATION == "optimization"
VALIDATION == "validation"

package_file == "swift-package/Package.swift"
dockerfile == "containerization/Dockerfile.bridge"
compose_file == "containerization/docker-compose.bridge.yml"
metabase_bridge_file == "swift-package/Sources/MetabaseBridge/MetabaseBridge.swift"
apple_bridge_file == "swift-package/Sources/AppleEcosystemBridge/AppleEcosystemBridge.swift"
nodejs_bridge_file == "swift-package/Sources/NodeJSBridge/NodeJSBridge.swift"

Dirs == {BASE, SWIFT_PACKAGE, SOURCES, CONTAINERIZATION, INTEGRATION, TESTS,
         OPTIMIZATION, VALIDATION}
Files == {package_file, dockerfile, compose_file, metabase_bridge_file,
          apple_bridge_file, nodejs_bridge_file}
TextFiles == {package_file, dockerfile, metabase_bridge_file}
Paths == Dirs \cup Files

\* The nearest modelled directory above a path.
ParentOf(p) ==
    CASE p = BASE -> ROOT
      [] p \in {SWIFT_PACKAGE, CONTAINERIZATION, INTEGRATION, TESTS,
                OPTIMIZATION, VALIDATION} -> BASE
      [] p \in {SOURCES, package_file} -> SWIFT_PACKAGE
      [] p \in {dockerfile, compose_file} -> CONTAINERIZATION
      [] OTHER -> SOURCES

RECURSIVE AncestorsOrSelf(_)
AncestorsOrSelf(p) ==
    IF p = ROOT THEN {ROOT} ELSE {p} \cup AncestorsOrSelf(ParentOf(p))

-----------------------------------------------------------------------------
(* The checklists of the source *)

required_elements == <<"name:", "platforms:", "dependencies:", "targets:">>
bridge_keyword == "MetabaseBridge"
dockerfile_keywords == <<"FROM swift:5.9-focal as builder", "USER metabase",
                         "HEALTHCHECK", "EXPOSE 3000">>
required_endpoints == <<"/health", "/api/v1/metrics", "/api/v1/metabase/process">>
required_components == <<[name |-> "MetabaseBridge.swift", path |-> metabase_bridge_file],
                         [name |-> "AppleEcosystemBridge.swift", path |-> apple_bridge_file],
                         [name |-> "NodeJSBridge.swift", path |-> nodejs_bridge_file]>>
required_dirs == <<SOURCES, CONTAINERIZATION, INTEGRATION, TESTS, OPTIMIZATION,
                   VALIDATION>>

Range(s) == {s[i] : i \in 1..Len(s)}

\* The substrings the code searches for in each text file.
Keywords(f) ==
    CASE f = package_file -> Range(required_elements) \cup {bridge_keyword}
      [] f = dockerfile -> Range(dockerfile_keywords)
      [] f = metabase_bridge_file -> Range(required_endpoints)

-----------------------------------------------------------------------------
(* Artifact trees.  A tree is a complete, healthy tree with a bounded      *)
(* number of defects: an artifact (with everything below it) absent, a     *)
(* keyword absent from a text, a file that cannot be read, a directory in  *)
(* which nothing can be created.                                           *)

Defects ==
    [kind : {"absent"}, path : Paths, kw : {""}]
    \cup UNION {[kind : {"missing"}, path : {f}, kw : Keywords(f)] : f \in TextFiles}
    \cup [kind : {"unreadable"}, path : TextFiles, kw : {""}]
    \cup [kind : {"readonly"}, path : {ROOT, BASE, SWIFT_PACKAGE, CONTAINERIZATION},
          kw : {""}]

RECURSIVE DefectSets(_)
DefectSets(k) ==
    IF k = 0 THEN {{}}
    ELSE LET prev == DefectSets(k - 1)
         IN  prev \cup {S \cup {d} : S \in prev, d \in Defects}

TreeOf(D) ==
    LET gone == {d.path : d \in {x \in D : x.kind = "absent"}}
        ex == {p \in Paths : AncestorsOrSelf(p) \cap gone = {}}
    IN  [exists |-> ex,
         content |-> [f \in TextFiles |->
                        IF f \in ex
                        THEN Keywords(f) \ {d.kw : d \in {x \in D : x.kind = "missing"
                                                                    /\ x.path = f}}
                        ELSE {}],
         unreadable |-> {f \in TextFiles \cap ex :
                            \E d \in D : d.kind = "unreadable" /\ d.path = f},
         readonly |-> {p \in {ROOT} \cup ex :
                            \E d \in D : d.kind = "readonly" /\ d.path = p}]

Trees == {TreeOf(D) : D \in DefectSets(MaxDefects)}

-----------------------------------------------------------------------------
(* Filesystem primitives used by the code *)

NoError == [op |-> "none", path |-> ""]

\* Path.exists()
Exists(t, p) == p \in t.exists

\* open(f, 'r') followed by f.read(): the exception raised, or NoError
ReadError(t, f) ==
    IF f \notin t.exists THEN [op |-> "open", path |-> f]
    ELSE IF f \in t.unreadable THEN [op |-> "read", path |-> f]
    ELSE NoError

\* Path.mkdir(parents=True, exist_ok=True): it creates the directory and its
\* missing parents, which needs write permission on the nearest existing one.
MkdirFails(t, d) ==
    \E a \in AncestorsOrSelf(d) \ {ROOT} :
        /\ a \notin t.exists
        /\ ParentOf(a) \in t.exists \cup {ROOT}
        /\ ParentOf(a) \in t.readonly

Mkdir(t, d) ==
    [t EXCEPT !.exists = @ \cup (AncestorsOrSelf(d) \ {ROOT})]

\* open(f, 'w') followed by f.write(...)
WriteFails(t, f) ==
    \/ ParentOf(f) \notin t.exists
    \/ (f \notin t.exists /\ ParentOf(f) \in t.readonly)

WriteFile(t, f) == [t EXCEPT !.exists = @ \cup {f}]

-----------------------------------------------------------------------------
(* The validator object.  The operators below take and return the record   *)
(* v of the validator's three collections together with the printed lines. *)

Self == [validation_results |-> validation_results,
         repairs_applied |-> repairs_applied,
         issues_found |-> issues_found,
         stdout |-> stdout]

print(v, line) == [v EXCEPT !.stdout = Append(@, line)]

record_validation(v, component, status, message) ==
    print([v EXCEPT !.validation_results =
                (component :> [status |-> status, message |-> message]) @@ @],
          <<"validation", component, message>>)

\* `items` is the list an f-string interpolates into the issue text.
record_issue(v, issue, items, severity, solution) ==
    print(print([v EXCEPT !.issues_found =
                    Append(@, [issue |-> issue, items |-> items,
                               severity |-> severity, solution |-> solution])],
                <<"ISSUE", severity, issue, items>>),
          <<"Solution", solution>>)

\* What an operation hands back: the validator, and the exception it raised.
Return(v) == [v |-> v, raised |-> NoError]
Raise(v, e) == [v |-> v, raised |-> e]

\* [x for x in keywords if x not in content]
MissingFrom(keywords, content) == SelectSeq(keywords, LAMBDA k : k \notin content)

-----------------------------------------------------------------------------
(* validate_swift_package_structure *)

PackageChecks(v, t) ==
    LET e == ReadError(t, package_file)
    IN  IF e # NoError
        THEN \* except Exception as e
             Return(record_issue(v, "Package validation error", <<e.op>>, "HIGH",
                                 "Fix Package.swift syntax"))
        ELSE LET content == t.content[package_file]
                 missing_elements == MissingFrom(required_elements, content)
                 v1 == IF missing_elements # <<>>
                       THEN record_issue(v, "Missing package elements",
                                         missing_elements, "HIGH",
                                         "Add missing package elements")
                       ELSE record_validation(v, "swift_package_structure", "PASSED",
                                              "Package structure is valid")
                 v2 == IF bridge_keyword \in content
                       THEN record_validation(v1, "metabase_bridge_component",
                                              "PASSED",
                                              "MetabaseBridge component present")
                       ELSE record_issue(v1, "MetabaseBridge component missing", <<>>,
                                         "HIGH", "Add MetabaseBridge component")
             IN  Return(v2)

SwiftPackageStructure(v, t) ==
    LET v0 == print(v, <<"print", "Validating Swift Package Structure...">>)
    IN  IF ~Exists(t, package_file)
        THEN Return(record_issue(v0, "Package.swift missing", <<>>, "CRITICAL",
                                 "Create Package.swift"))
        ELSE PackageChecks(v0, t)

-----------------------------------------------------------------------------
(* validate_containerization *)

DockerfileChecks(v, t) ==
    LET e == ReadError(t, dockerfile)
    IN  IF e # NoError
        THEN Raise(v, e)
        ELSE LET content == t.content[dockerfile]
                 dockerfile_checks ==
                    [i \in 1..Len(dockerfile_keywords) |->
                        IF dockerfile_keywords[i] \in content
                        THEN "configured" ELSE "missing"]
             IN  IF \A i \in 1..Len(dockerfile_checks) :
                        dockerfile_checks[i] = "configured"
                 THEN Return(record_validation(v, "containerization", "PASSED",
                                    "Containerization is properly configured"))
                 ELSE Return(record_issue(v, "Containerization configuration issues",
                                    <<>>, "HIGH", "Fix Dockerfile configuration"))

\* Variant: the `return` after the missing-file issue is lost.
Containerization_NoReturn(v, t) ==
    LET v0 == print(v, <<"print", "Validating Containerization...">>)
    IN  IF ~Exists(t, dockerfile)
        THEN DockerfileChecks(
                record_issue(v0, "Dockerfile.bridge missing", <<>>, "CRITICAL",
                             "Create containerization/Dockerfile.bridge"), t)
        ELSE DockerfileChecks(v0, t)

Containerization(v, t) ==
    LET v0 == print(v, <<"print", "Validating Containerization...">>)
    IN  IF ~Exists(t, dockerfile)
        THEN Return(record_issue(v0, "Dockerfile.bridge missing", <<>>, "CRITICAL",
                                 "Create containerization/Dockerfile.bridge"))
        ELSE DockerfileChecks(v0, t)

-----------------------------------------------------------------------------
(* validate_api_alignment *)

\* Variant: record_issue is called inside the loop, once per missing endpoint.
RECURSIVE IssuePerEndpoint(_, _, _)
IssuePerEndpoint(v, missing, i) ==
    IF i > Len(missing) THEN v
    ELSE IssuePerEndpoint(record_issue(v, "Missing API endpoints", <<missing[i]>>,
                                       "MEDIUM", "Implement missing API endpoints"),
                          missing, i + 1)

EndpointChecks_IssuePerEndpoint(v, t) ==
    LET e == ReadError(t, metabase_bridge_file)
    IN  IF e # NoError
        THEN Raise(v, e)
        ELSE LET content == t.content[metabase_bridge_file]
                 missing_endpoints == MissingFrom(required_endpoints, content)
             IN  IF missing_endpoints # <<>>
                 THEN Return(IssuePerEndpoint(v, missing_endpoints, 1))
                 ELSE Return(record_validation(v, "api_alignment", "PASSED",
                                    "All required API endpoints referenced"))

\* Variant: a failed check is also stored as a validation record.
EndpointChecks_FailedRecord(v, t) ==
    LET e == ReadError(t, metabase_bridge_file)
    IN  IF e # NoError
        THEN Raise(v, e)
        ELSE LET content == t.content[metabase_bridge_file]
                 missing_endpoints == MissingFrom(required_endpoints, content)
             IN  IF missing_endpoints # <<>>
                 THEN Return(record_validation(
                                record_issue(v, "Missing API endpoints",
                                    missing_endpoints, "MEDIUM",
                                    "Implement missing API endpoints"),
                                "api_alignment", "FAILED",
                                "Missing API endpoints"))
                 ELSE Return(record_validation(v, "api_alignment", "PASSED",
                                    "All required API endpoints referenced"))

EndpointChecks(v, t) ==
    LET e == ReadError(t, metabase_bridge_file)
    IN  IF e # NoError
        THEN Raise(v, e)
        ELSE LET content == t.content[metabase_bridge_file]
                 missing_endpoints == MissingFrom(required_endpoints, content)
             IN  IF missing_endpoints # <<>>
                 THEN Return(record_issue(v, "Missing API endpoints",
                                    missing_endpoints, "MEDIUM",
                                    "Implement missing API endpoints"))
                 ELSE Return(record_validation(v, "api_alignment", "PASSED",
                                    "All required API endpoints referenced"))

ApiAlignment(v, t) ==
    LET v0 == print(v, <<"print", "Validating API Alignment...">>)
    IN  IF ~Exists(t, metabase_bridge_file)
        THEN Return(record_issue(v0, "MetabaseBridge.swift missing", <<>>, "HIGH",
                                 "Create MetabaseBridge implementation"))
        ELSE EndpointChecks(v0, t)

-----------------------------------------------------------------------------
(* validate_integration_components *)

\* Variant: the `else:` before record_validation is lost.
IntegrationComponents_NoElse(v, t) ==
    LET v0 == print(v, <<"print", "Validating Integration Components...">>)
        missing == SelectSeq(required_components, LAMBDA c : ~Exists(t, c.path))
        missing_components == [i \in 1..Len(missing) |-> missing[i].name]
        v1 == IF missing_components # <<>>
              THEN record_issue(v0, "Missing components", missing_components,
                                "CRITICAL", "Create missing component files")
              ELSE v0
    IN  Return(record_validation(v1, "integration_components", "PASSED",
                                 "All integration components present"))

IntegrationComponents(v, t) ==
    LET v0 == print(v, <<"print", "Validating Integration Components...">>)
        missing == SelectSeq(required_components, LAMBDA c : ~Exists(t, c.path))
        missing_components == [i \in 1..Len(missing) |-> missing[i].name]
    IN  IF missing_components # <<>>
        THEN Return(record_issue(v0, "Missing components", missing_components,
                                 "CRITICAL", "Create missing component files"))
        ELSE Return(record_validation(v0, "integration_components", "PASSED",
                                      "All integration components present"))

-----------------------------------------------------------------------------
(* apply_automatic_repairs: repair_missing_directories and                 *)
(* repair_configuration_files.  A repair operation also changes the tree.  *)

Done(v, t) == [v |-> v, t |-> t, raised |-> NoError]
Failed(v, t, e) == [v |-> v, t |-> t, raised |-> e]

\* Variant: the check before each creation is lost.
AlwaysRepair(t, p) == TRUE

\* `if not path.exists()`: the check before each creation
NeedsRepair(t, p) == ~Exists(t, p)

\* the loop over required_dirs, from its i-th entry on
RECURSIVE MissingDirectories(_, _, _)
MissingDirectories(v, t, i) ==
    IF i > Len(required_dirs) THEN Done(v, t)
    ELSE LET dir_path == required_dirs[i]
         IN  IF NeedsRepair(t, dir_path)
             THEN IF MkdirFails(t, dir_path)
                  THEN Failed(v, t, [op |-> "mkdir", path |-> dir_path])
                  ELSE MissingDirectories(
                          [print(v, <<"Created directory", dir_path>>)
                              EXCEPT !.repairs_applied =
                                  Append(@, <<"Created directory", dir_path>>)],
                          Mkdir(t, dir_path), i + 1)
             ELSE MissingDirectories(v, t, i + 1)

ConfigurationFiles(v, t) ==
    IF NeedsRepair(t, compose_file)
    THEN IF WriteFails(t, compose_file)
         THEN Failed(v, t, [op |-> "write", path |-> compose_file])
         ELSE Done([print(v, <<"Created docker-compose.bridge.yml">>)
                       EXCEPT !.repairs_applied =
                           Append(@, <<"Created docker-compose.bridge.yml">>)],
                   WriteFile(t, compose_file))
    ELSE Done(v, t)

-----------------------------------------------------------------------------
(* calculate_overall_health.  health_percentage is the float               *)
(* (passed / total) * 100; for every total below 400 its comparisons with  *)
(* 90, 70 and 50 agree with the exact comparisons of 100 * passed with     *)
(* 90 * total, 70 * total and 50 * total, which is how they are written.   *)

Excellent == 90
Good == 70
Fair == 50

\* Variant: `>` for `>=`.
MoreThan(passed, total, percent) == 100 * passed > percent * total

AtLeast(passed, total, percent) == 100 * passed >= percent * total

calculate_overall_health(results) ==
    LET passed_validations ==
            Cardinality({c \in DOMAIN results : results[c].status = "PASSED"})
        total_validations == Cardinality(DOMAIN results)
    IN  IF total_validations = 0 THEN "UNKNOWN"
        ELSE IF AtLeast(passed_validations, total_validations, Excellent)
             THEN "EXCELLENT"
        ELSE IF AtLeast(passed_validations, total_validations, Good) THEN "GOOD"
        ELSE IF AtLeast(passed_validations, total_validations, Fair) THEN "FAIR"
        ELSE "POOR"

-----------------------------------------------------------------------------
(* The state machine.  A call of run_validation_and_repair goes through    *)
(* its six operations in order; an exception that leaves an operation ends *)
(* the call.                                                               *)

Fresh == /\ validation_results = <<>>
         /\ repairs_applied = <<>>
         /\ issues_found = <<>>

Init ==
    /\ fs \in Trees
    /\ Fresh
    /\ stdout = <<>>
    /\ pc = "idle"
    /\ caller = "none"
    /\ calls = 0
    /\ outcome = "none"
    /\ report = <<>>
    /\ error = NoError

SetSelf(v) ==
    /\ validation_results' = v.validation_results
    /\ repairs_applied' = v.repairs_applied
    /\ issues_found' = v.issues_found
    /\ stdout' = v.stdout

\* The operation went through (on to `next`) or raised (the call is over).
Continue(r, next) ==
    IF r.raised = NoError
    THEN /\ pc' = next
         /\ UNCHANGED <<outcome, report, error>>
    ELSE /\ pc' = "idle"
         /\ outcome' = "error"
         /\ report' = <<>>
         /\ error' = r.raised

\* __init__: the caller builds a new validator on the same base_path
MetabaseBridgeValidator ==
    /\ pc = "idle"
    /\ calls > 0
    /\ calls < MaxCalls
    /\ ~Fresh
    /\ validation_results' = <<>>
    /\ repairs_applied' = <<>>
    /\ issues_found' = <<>>
    /\ UNCHANGED <<fs, stdout, pc, caller, calls, outcome, report, error>>

run_validation_and_repair ==
    /\ pc = "idle"
    /\ calls < MaxCalls
    /\ calls' = calls + 1
    /\ caller' = "run_validation_and_repair"
    /\ pc' = "validate_swift_package_structure"
    /\ stdout' = stdout \o <<
            <<"print", "Validating Metabase MCP Bridging Architecture...">>,
            <<"print", "====">> >>
    /\ UNCHANGED <<fs, validation_results, repairs_applied, issues_found,
                   outcome, report, error>>

validate_swift_package_structure ==
    /\ pc = "validate_swift_package_structure"
    /\ LET r == SwiftPackageStructure(Self, fs)
       IN  SetSelf(r.v) /\ Continue(r, "validate_containerization")
    /\ UNCHANGED <<fs, caller, calls>>

validate_containerization ==
    /\ pc = "validate_containerization"
    /\ LET r == Containerization(Self, fs)
       IN  SetSelf(r.v) /\ Continue(r, "validate_api_alignment")
    /\ UNCHANGED <<fs, caller, calls>>

validate_api_alignment ==
    /\ pc = "validate_api_alignment"
    /\ LET r == ApiAlignment(Self, fs)
       IN  SetSelf(r.v) /\ Continue(r, "validate_integration_components")
    /\ UNCHANGED <<fs, caller, calls>>

validate_integration_components ==
    /\ pc = "validate_integration_components"
    /\ LET r == IntegrationComponents(Self, fs)
       IN  SetSelf(r.v) /\ Continue(r, "apply_automatic_repairs")
    /\ UNCHANGED <<fs, caller, calls>>

\* called by run_validation_and_repair, or by the caller directly
apply_automatic_repairs ==
    /\ \/ /\ pc = "apply_automatic_repairs"
          /\ UNCHANGED <<caller, calls>>
       \/ /\ pc = "idle"
          /\ calls < MaxCalls
          /\ calls' = calls + 1
          /\ caller' = "apply_automatic_repairs"
    /\ pc' = "repair_missing_directories"
    /\ stdout' = Append(stdout, <<"print", "Applying Automatic Repairs...">>)
    /\ UNCHANGED <<fs, validation_results, repairs_applied, issues_found,
                   outcome, report, error>>

repair_missing_directories ==
    /\ pc = "repair_missing_directories"
    /\ LET r == MissingDirectories(Self, fs, 1)
       IN  /\ fs' = r.t
           /\ SetSelf(r.v)
           /\ Continue(r, "repair_configuration_files")
    /\ UNCHANGED <<caller, calls>>

repair_configuration_files ==
    /\ pc = "repair_configuration_files"
    /\ LET r == ConfigurationFiles(Self, fs)
       IN  /\ fs' = r.t
           /\ SetSelf(r.v)
           /\ IF r.raised = NoError /\ caller = "apply_automatic_repairs"
              THEN /\ pc' = "idle"
                   /\ outcome' = "returned"
                   /\ report' = <<>>
                   /\ error' = NoError
              ELSE Continue(r, "generate_final_report")
    /\ UNCHANGED <<caller, calls>>

\* lines 45-53 of run_validation_and_repair
generate_final_report ==
    /\ pc = "generate_final_report"
    /\ report' = << [validation_results |-> validation_results,
                     repairs_applied |-> repairs_applied,
                     issues_found |-> issues_found,
                     overall_health |->
                        calculate_overall_health(validation_results)] >>
    /\ outcome' = "report"
    /\ error' = NoError
    /\ pc' = "idle"
    /\ UNCHANGED <<fs, validation_results, repairs_applied, issues_found, stdout,
                   caller, calls>>

Next ==
    \/ MetabaseBridgeValidator
    \/ run_validation_and_repair
    \/ validate_swift_package_structure
    \/ validate_containerization
    \/ validate_api_alignment
    \/ validate_integration_components
    \/ apply_automatic_repairs
    \/ repair_missing_directories
    \/ repair_configuration_files
    \/ generate_final_report

Spec == Init /\ [][Next]_vars

-----------------------------------------------------------------------------
(* Health scoring on its own: calculate_overall_health applied, by the     *)
(* report step, to every mapping of up to MaxTotal records of either       *)
(* status.                                                                 *)

Statuses == {"PASSED", "FAILED"}

Mappings ==
    UNION {[1..n -> [status : Statuses, message : {""}]] : n \in 0..MaxTotal}

InitHealth ==
    /\ fs = TreeOf({})
    /\ validation_results \in Mappings
    /\ repairs_applied = <<>>
    /\ issues_found = <<>>
    /\ stdout = <<>>
    /\ pc = "generate_final_report"
    /\ caller = "run_validation_and_repair"
    /\ calls = 1
    /\ outcome = "none"
    /\ report = <<>>
    /\ error = NoError

SpecHealth == InitHealth /\ [][generate_final_report]_vars

-----------------------------------------------------------------------------
(* Properties *)

\* What one step adds to the validator's collections.
NewLines == SubSeq(stdout', Len(stdout) + 1, Len(stdout'))
NewValidations == Cardinality({i \in 1..Len(NewLines) : NewLines[i][1] = "validation"})
NewIssues == Len(issues_found') - Len(issues_found)
LastIssue == issues_found[Len(issues_found)]
IssueTexts == {issues_found[i].issue : i \in 1..Len(issues_found)}

Readable(f) == ReadError(fs, f) = NoError
Returns == pc' # "idle"

RulePcs == {"validate_swift_package_structure", "validate_containerization",
            "validate_api_alignment", "validate_integration_components"}

\* What C1_RecordXorIssues asks of one step.
C1_RecordXorIssues_Step ==
    pc \in RulePcs =>
       \/ NewValidations = 1 /\ NewIssues = 0
       \/ NewValidations = 0 /\ NewIssues >= 1

\* C1 as stated: every evaluation of one of the four validate_* operations
\* yields either exactly one new ValidationRecord and no new Issue, or at
\* least one new Issue and no new ValidationRecord.
C1_RecordXorIssues == [][C1_RecordXorIssues_Step]_vars

\* What C1_OutcomePerComponentCheck asks of one step.
C1_OutcomePerComponentCheck_Step ==
    /\ (pc \in RulePcs \ {"validate_swift_package_structure"} /\ Returns) =>
           \/ NewValidations = 1 /\ NewIssues = 0
           \/ NewValidations = 0 /\ NewIssues = 1
    /\ pc = "validate_swift_package_structure" =>
           /\ Returns
           /\ IF Readable(package_file)
              THEN NewValidations + NewIssues = 2
              ELSE NewValidations = 0 /\ NewIssues = 1

\* C1 amended: an evaluation of validate_containerization, validate_api_alignment
\* or validate_integration_components that returns yields exactly one new
\* ValidationRecord and no Issue, or exactly one Issue and no ValidationRecord;
\* validate_swift_package_structure runs two component checks and yields two
\* outcomes in all (records or Issues, possibly one of each) when Package.swift
\* is read, and exactly one Issue and no record when it is missing or unreadable.
C1_OutcomePerComponentCheck == [][C1_OutcomePerComponentCheck_Step]_vars

\* The swift evaluation has just recorded both a ValidationRecord and an Issue.
C1_Witness ==
    /\ pc = "validate_containerization"
    /\ calls = 1
    /\ DOMAIN validation_results = {"swift_package_structure"}
    /\ IssueTexts = {"MetabaseBridge component missing"}

\* What C2_RepairIdempotent asks of one step.
C2_RepairIdempotent_Step ==
    (/\ pc \in {"repair_missing_directories", "repair_configuration_files"}
     /\ outcome \in {"report", "returned"}) =>
         /\ fs' = fs
         /\ repairs_applied' = repairs_applied
         /\ outcome' # "error"

\* C2: once a call of apply_automatic_repairs has completed, a later call on
\* the unchanged tree does not raise, leaves the tree as it is and appends
\* nothing to repairs_applied.
C2_RepairIdempotent == [][C2_RepairIdempotent_Step]_vars

\* A second call of apply_automatic_repairs has returned, after a first call
\* that created something.
C2_Witness ==
    /\ pc = "idle"
    /\ calls = 2
    /\ caller = "apply_automatic_repairs"
    /\ outcome = "returned"
    /\ fs.unreadable = {}
    /\ repairs_applied # <<>>

PassedOf(results) == Cardinality({c \in DOMAIN results : results[c].status = "PASSED"})
TotalOf(results) == Cardinality(DOMAIN results)

TierOf(passed, total) ==
    IF total = 0 THEN "UNKNOWN"
    ELSE IF 10 * passed >= 9 * total THEN "EXCELLENT"
    ELSE IF 10 * passed >= 7 * total THEN "GOOD"
    ELSE IF 2 * passed >= total THEN "FAIR"
    ELSE "POOR"

\* C3: the health of a mapping with `passed` PASSED entries out of `total` is
\* UNKNOWN when total = 0, else EXCELLENT from 90%, GOOD from 70%, FAIR from
\* 50%, else POOR; 9/10 is EXCELLENT, 7/10 GOOD, 5/10 FAIR, 4/10 POOR.
C3_HealthTiers ==
    outcome = "report" =>
        LET results == report[1].validation_results
            passed == PassedOf(results)
            total == TotalOf(results)
            health == report[1].overall_health
        IN  /\ health = TierOf(passed, total)
            /\ (total = 10 /\ passed = 9) => health = "EXCELLENT"
            /\ (total = 10 /\ passed = 7) => health = "GOOD"
            /\ (total = 10 /\ passed = 5) => health = "FAIR"
            /\ (total = 10 /\ passed = 4) => health = "POOR"

\* A mapping with 7 PASSED out of 10 has been scored GOOD.
C3_Witness ==
    /\ outcome = "report"
    /\ TotalOf(report[1].validation_results) = 10
    /\ PassedOf(report[1].validation_results) = 7
    /\ report[1].overall_health = "GOOD"

\* The step appends exactly the issue `text` and does nothing else: no record,
\* no further issue, no exception from a read of the missing file.
OnlyIssue(text) ==
    /\ Returns
    /\ NewValidations = 0
    /\ validation_results' = validation_results
    /\ Len(issues_found') = Len(issues_found) + 1
    /\ SubSeq(issues_found', 1, Len(issues_found)) = issues_found
    /\ issues_found'[Len(issues_found')].issue = text

\* What C4_ShortCircuit asks of one step.
C4_ShortCircuit_Step ==
    /\ (pc = "validate_swift_package_structure" /\ ~Exists(fs, package_file))
         => OnlyIssue("Package.swift missing")
    /\ (pc = "validate_containerization" /\ ~Exists(fs, dockerfile))
         => OnlyIssue("Dockerfile.bridge missing")
    /\ (pc = "validate_api_alignment" /\ ~Exists(fs, metabase_bridge_file))
         => OnlyIssue("MetabaseBridge.swift missing")

\* C4: when the file a rule requires is absent, the evaluation records exactly
\* one Issue, for the missing file, records no ValidationRecord and runs none
\* of the rule's content checks.
C4_ShortCircuit == [][C4_ShortCircuit_Step]_vars

\* validate_containerization has just run without a Dockerfile.bridge.
C4_Witness ==
    /\ pc = "validate_api_alignment"
    /\ calls = 1
    /\ ~Exists(fs, dockerfile)
    /\ issues_found # <<>>
    /\ LastIssue.issue = "Dockerfile.bridge missing"

MissingArtifactIssues == {"Package.swift missing", "Dockerfile.bridge missing",
                          "MetabaseBridge.swift missing", "Missing components"}

\* C5: every Issue recorded for a missing required artifact has severity
\* CRITICAL.
C5_MissingArtifactIsCritical ==
    \A i \in 1..Len(issues_found) :
        issues_found[i].issue \in MissingArtifactIssues
            => issues_found[i].severity = "CRITICAL"

\* C6: a repair that cannot complete does not raise to the caller.
C6_RepairFailureNotRaised ==
    outcome = "error" => error.op \notin {"mkdir", "write"}

\* C7: a failure to read an existing required artifact ends the run with an
\* error and no report, and is not turned into an Issue.
C7_ReadFailurePropagates ==
    /\ "Package validation error" \notin IssueTexts
    /\ outcome = "report" => fs.unreadable = {}

MissingKeywords(f) == Keywords(f) \ fs.content[f]

\* What C8_OneIssueForAllMissing asks of one step.
C8_OneIssueForAllMissing_Step ==
    /\ (pc = "validate_swift_package_structure" /\ Readable(package_file)
           /\ MissingKeywords(package_file) # {}) => NewIssues = 1
    /\ (pc = "validate_containerization" /\ Readable(dockerfile)
           /\ MissingKeywords(dockerfile) # {}) => NewIssues = 1
    /\ (pc = "validate_api_alignment" /\ Readable(metabase_bridge_file)
           /\ MissingKeywords(metabase_bridge_file) # {}) => NewIssues = 1

\* C8 as stated: a content-check rule evaluated on an existing, readable text
\* with a non-empty set of required keywords missing appends exactly one Issue.
C8_OneIssueForAllMissing == [][C8_OneIssueForAllMissing_Step]_vars

NewIssueAt(k) == issues_found'[Len(issues_found) + k]

\* What C8_OneIssuePerKeywordList asks of one step.
C8_OneIssuePerKeywordList_Step ==
    /\ (pc = "validate_swift_package_structure" /\ Readable(package_file)) =>
         LET elements == MissingKeywords(package_file) \ {bridge_keyword}
             bridge == bridge_keyword \in MissingKeywords(package_file)
         IN  /\ NewIssues = (IF elements # {} THEN 1 ELSE 0)
                             + (IF bridge THEN 1 ELSE 0)
             /\ elements # {} =>
                   /\ NewIssueAt(1).issue = "Missing package elements"
                   /\ Range(NewIssueAt(1).items) = elements
             /\ bridge =>
                   NewIssueAt(NewIssues).issue = "MetabaseBridge component missing"
    /\ (pc = "validate_containerization" /\ Readable(dockerfile)
           /\ MissingKeywords(dockerfile) # {}) =>
         /\ NewIssues = 1
         /\ NewIssueAt(1).issue = "Containerization configuration issues"
    /\ (pc = "validate_api_alignment" /\ Readable(metabase_bridge_file)
           /\ MissingKeywords(metabase_bridge_file) # {}) =>
         /\ NewIssues = 1
         /\ NewIssueAt(1).issue = "Missing API endpoints"
         /\ Range(NewIssueAt(1).items) = MissingKeywords(metabase_bridge_file)

\* C8 amended: on a text that is read, validate_containerization and
\* validate_api_alignment append exactly one Issue for any non-empty set of
\* missing keywords (the endpoints all listed in it); validate_swift_package_structure
\* appends one Issue listing all the missing package elements together and a
\* separate Issue when the keyword MetabaseBridge is missing, hence two Issues
\* when both are missing.
C8_OneIssuePerKeywordList == [][C8_OneIssuePerKeywordList_Step]_vars

\* Two endpoints are missing and validate_api_alignment has recorded the one
\* Issue that lists both.
C8_Witness ==
    /\ pc = "validate_integration_components"
    /\ calls = 1
    /\ Cardinality(MissingKeywords(metabase_bridge_file)) = 2
    /\ issues_found # <<>>
    /\ LastIssue.issue = "Missing API endpoints"
    /\ Len(LastIssue.items) = 2

\* The Issues that name an artifact of the repair catalog or a file below it.
AttributableTo(p) ==
    CASE p = SOURCES -> {"MetabaseBridge.swift missing", "Missing components"}
      [] p = CONTAINERIZATION -> {"Dockerfile.bridge missing"}
      [] OTHER -> {}

\* C9: when the repair of a catalog artifact failed in the previous call, the
\* four validate_* operations of the next run record an Issue attributable to
\* that artifact.
C9_FailedRepairResurfaces ==
    (/\ pc = "apply_automatic_repairs"
     /\ outcome = "error"
     /\ error.op \in {"mkdir", "write"})
        => IssueTexts \cap AttributableTo(error.path) # {}

\* C10: a returned report has health UNKNOWN when no check passed and EXCELLENT
\* when at least one did, whatever Issues it carries.
C10_HealthUnknownOrExcellent ==
    outcome = "report" =>
        LET results == report[1].validation_results
        IN  /\ \A c \in DOMAIN results : results[c].status = "PASSED"
            /\ report[1].overall_health =
                  IF DOMAIN results = {} THEN "UNKNOWN" ELSE "EXCELLENT"

\* A report with one passed check and three CRITICAL Issues is EXCELLENT.
C10_Witness ==
    /\ outcome = "report"
    /\ report[1].overall_health = "EXCELLENT"
    /\ TotalOf(report[1].validation_results) = 1
    /\ Len(report[1].issues_found) = 3
    /\ \A i \in 1..3 : report[1].issues_found[i].severity = "CRITICAL"

====
